---- MODULE Spec2Model ----
(***************************************************************************)
(* A model of the GameSystems engine of roseblox (src/unnamed/part_018):   *)
(* the resource registry, the setup phase of init(), the per-frame pass of *)
(* update() with the final render(), and the event bus on/off/emit.        *)
(*                                                                         *)
(* JavaScript runs every synchronous stretch of code to completion, so one *)
(* action is one such stretch: a call of the public API, or the part of    *)
(* init() between two awaits.                                              *)
(***************************************************************************)
EXTENDS Integers, Sequences, FiniteSets, TLC

VARIABLES
    resources,       \* this.resources: the Map, as its entries in insertion order
    setupSystems,    \* this.setupSystems
    runtimeSystems,  \* this.runtimeSystems
    initialized,     \* this.initialized
    gameConfig,      \* this.gameConfig
    eventListeners,  \* this.eventListeners: event name -> array of callbacks
    pc,              \* where the running init() call is suspended
    cursor,          \* the position of init()'s current for-of loop
    completed,       \* init()'s local Set `completed`
    inProgress,      \* init()'s local Set `inProgress`
    initPromise,     \* the state of the promise the last init() call returned
    initError,       \* what that promise rejected with
    rafPending,      \* requestAnimationFrame(animate) is scheduled
    lastError,       \* what the last synchronous API call threw ("none": it returned)
    factoryLog,      \* factories invoked by the current init() call, in order
    setupLog,        \* setup systems the current init() call entered, in order
    frameLog,        \* the runtime systems update() visited in the latest frame
    prevLog,         \* the same for the frame before it
    renderLog,       \* what render() did in the latest frame, and where in
                     \* the frame it was called
    initCalls,       \* the number of init() calls
    regs,            \* the number of registrations the game code made
    emitEvent,       \* the event name of the last emit() call ("none")
    emitBefore,      \* the listener array of that name when emit() was called
    delivered,       \* the listeners that emit() call invoked, in order
    emitAdded,       \* the callbacks listeners subscribed during that call
    emitRemoved,     \* the callbacks listeners unsubscribed during that call
    fresh,           \* per event name: callbacks subscribed from inside a
                     \* listener of that event and neither invoked nor the
                     \* argument of an off() call since
    emitOwed,        \* fresh[emitEvent] when that emit() was called
    busOps,          \* the number of on/off/emit calls the game code made
    passed,          \* the {name, factory} pairs the game code passed to
                     \* registerResource
    ranBefore,       \* positions of this.setupSystems whose init function an
                     \* earlier init() call invoked
    clock,           \* this.clock, by the parity of its getDelta() calls
    stack            \* the init() calls that are suspended while the call
                     \* of pc and cursor runs, with their locals: a call
                     \* whose setup system awaits a nested init() (pc
                     \* "inInit"), or a call the game code made earlier that
                     \* waits at its own await (pc "factories" or "setups")

vars == << resources, setupSystems, runtimeSystems, initialized, gameConfig,
           eventListeners, pc, cursor, completed, inProgress, initPromise,
           initError, rafPending, lastError, factoryLog, setupLog, frameLog,
           prevLog, renderLog, initCalls, regs, emitEvent, emitBefore,
           delivered, emitAdded, emitRemoved, fresh, emitOwed, busOps,
           passed, ranBefore, clock, stack >>

engineVars == << resources, setupSystems, runtimeSystems, initialized,
                 gameConfig, pc, cursor, completed, inProgress, initPromise,
                 initError, rafPending, lastError, factoryLog, setupLog,
                 frameLog, prevLog, renderLog, initCalls, regs, passed,
                 ranBefore, clock, stack >>

busVars == << eventListeners, emitEvent, emitBefore, delivered, emitAdded,
              emitRemoved, fresh, emitOwed, busOps >>

---------------------------------------------------------------------------
\* Bounds of the model.

\* Registrations the game code makes (resources, setup and runtime systems).
MaxRegs == 2
\* init() calls that get past init()'s guard.
MaxInits == 2
\* on/off/emit calls on the event bus.
MaxBusOps == 4

---------------------------------------------------------------------------
\* Values.

\* JavaScript's null.
Null == "null"

\* The error a call threw, or the reason a promise rejected with.
\* `name` is the system or call the message names, `detail` the resource or
\* cause it goes on to name.
NoError == [kind |-> "none", name |-> "none", detail |-> "none"]
Err(kind, name, detail) == [kind |-> kind, name |-> name, detail |-> detail]

---------------------------------------------------------------------------
\* The Map this.resources: entries in insertion order, one per key.

MapHas(m, name) == \E k \in 1..Len(m) : m[k].name = name

MapIndex(m, name) == CHOOSE k \in 1..Len(m) : m[k].name = name

MapGet(m, name) == m[MapIndex(m, name)]

\* Map.prototype.set: a present key keeps its place and gets the new value.
MapSet(m, name, factory, instance) ==
    LET e == [name |-> name, factory |-> factory, instance |-> instance]
    IN  IF MapHas(m, name) THEN [m EXCEPT ![MapIndex(m, name)] = e]
        ELSE Append(m, e)

\* `!resource || !resource.instance` is false.
Available(m, name) == MapHas(m, name) /\ MapGet(m, name).instance # Null

\* A getResource that only asks whether the name is registered.
ResourceMissingLoose(m, name) == ~MapHas(m, name)

\* getResource's test `!resource || !resource.instance`.
ResourceMissing(m, name) ==
    ~MapHas(m, name) \/ MapGet(m, name).instance = Null

\* getResource(name): throws unless the entry exists with a truthy instance.
GetResource(m, name) ==
    IF ResourceMissing(m, name)
    THEN [threw |-> TRUE, value |-> Null,
          error |-> Err("notAvailable", "getResource", name)]
    ELSE [threw |-> FALSE, value |-> MapGet(m, name).instance,
          error |-> NoError]

\* A _getDependencies that only asks whether the name is registered.
DependencyMissingLoose(m, name) == ~MapHas(m, name)

\* _getDependencies' test `!resource || !resource.instance`.
DependencyMissing(m, name) ==
    ~MapHas(m, name) \/ MapGet(m, name).instance = Null

\* The for loop of _getDependencies from position k on, `deps` being the
\* object built so far: the first unavailable name ends the call by a throw.
RECURSIVE GetDependenciesFrom(_, _, _, _)
GetDependenciesFrom(m, names, k, deps) ==
    IF k > Len(names) THEN [threw |-> FALSE, deps |-> deps, missing |-> "none"]
    ELSE IF DependencyMissing(m, names[k])
    THEN [threw |-> TRUE, deps |-> << >>, missing |-> names[k]]
    ELSE GetDependenciesFrom(m, names, k + 1,
             Append(deps, [name |-> names[k],
                           instance |-> MapGet(m, names[k]).instance]))

\* _getDependencies(dependencyNames); the object `deps` as its properties in
\* the order they were set.
GetDependencies(m, names) == GetDependenciesFrom(m, names, 1, << >>)

\* An addResource that makes no exception for the name eventBus.
AddResourceStrict(m, name, instance) ==
    IF MapHas(m, name) /\ MapGet(m, name).instance # Null
    THEN [threw |-> TRUE, res |-> m,
          error |-> Err("alreadyExists", "addResource", name)]
    ELSE [threw |-> FALSE, res |-> MapSet(m, name, Null, instance),
          error |-> NoError]

\* addResource(name, instance) on registry m.
AddResource(m, name, instance) ==
    IF MapHas(m, name) /\ MapGet(m, name).instance # Null /\ name # "eventBus"
    THEN [threw |-> TRUE, res |-> m,
          error |-> Err("alreadyExists", "addResource", name)]
    ELSE [threw |-> FALSE, res |-> MapSet(m, name, Null, instance),
          error |-> NoError]

---------------------------------------------------------------------------
\* The runtime list.

\* The comparator of registerSystem's sort: (a, b) => a.priority - b.priority.
ComparePriority(a, b) == a.priority - b.priority

\* A sort that also moves a in front of a b it ties with.
SortsBeforeOrTie(a, b) == ComparePriority(a, b) <= 0

\* a is moved in front of b: the comparator's result is negative.
SortsBefore(a, b) == ComparePriority(a, b) < 0

\* Array.prototype.sort with that comparator. The sort is stable
\* (ECMAScript 2019), and so is SortSeq, an insertion sort that moves an
\* element left only past elements it SortsBefore.
SortByPriority(s) == SortSeq(s, SortsBefore)

\* A registerSystem that pushes and does not sort.
PushSystemUnsorted(systems, sys) ==
    Append(systems, [sys EXCEPT !.reg = Len(systems) + 1])

\* The body of registerSystem behind its guard: push, then sort. `reg` is
\* the position of the call among the registerSystem calls (nothing ever
\* leaves the array), kept to tell registration order.
PushSystem(systems, sys) ==
    SortByPriority(Append(systems, [sys EXCEPT !.reg = Len(systems) + 1]))

RECURSIVE PushSystems(_, _)
PushSystems(systems, more) ==
    IF more = << >> THEN systems
    ELSE PushSystems(PushSystem(systems, Head(more)), Tail(more))

Sys(name, deps, priority, update) ==
    [name |-> name, dependencies |-> deps, priority |-> priority,
     update |-> update, reg |-> 0]

\* The runtime systems _registerCoreSystems registers, in the order of its
\* registerSystem calls. Their update functions call into the engine's
\* system modules ("core").
CoreRuntimeSystems ==
    << Sys("inputInterpretation", << "input" >>, 10, "core"),
       Sys("cameraInput", << "camera" >>, 20, "core"),
       Sys("pointerLock", << "camera", "input" >>, 21, "core"),
       Sys("componentMovement", << "physics" >>, 35, "core"),
       Sys("physicsStep", << "physics" >>, 40, "core"),
       Sys("characterControllerCollisionProcessing",
           << "physics", "eventBus" >>, 41, "core"),
       Sys("collisionProcessing", << "physics", "eventBus" >>, 42, "core"),
       Sys("triggerDetection", << "eventBus" >>, 43, "core"),
       Sys("physicsStateSync", << "physics" >>, 45, "core"),
       Sys("sceneManagement", << "assets", "renderer", "physics" >>, 50,
           "core"),
       Sys("animationSetup", << >>, 52, "core"),
       Sys("animation", << >>, 55, "core"),
       Sys("parenting", << >>, 60, "core"),
       Sys("transformSync", << >>, 65, "core"),
       Sys("camera-collision", << "camera" >>, 74, "core"),
       Sys("cameraUpdate", << "camera", "input" >>, 75, "core") >>

\* The optional system init() registers when gameConfig.DEBUG is set.
DebugRenderer == Sys("debug-renderer", << "physics", "renderer" >>, 999, "core")

\* The setup systems _registerCoreSystems registers, in order.
Setup(name, deps, init) == [name |-> name, dependencies |-> deps, init |-> init]

CoreSetupSystems ==
    << Setup("lighting", << "renderer" >>, "lighting"),
       Setup("physicsBodyCreation", << "physics" >>, "bodies"),
       Setup("camera", << "renderer" >>, "camera") >>

\* A _registerCoreSystems that puts its setup systems in front of the list.
RegisterCoreSetupsFirst(list) == CoreSetupSystems \o list

\* The registerSetup calls of _registerCoreSystems: each pushes onto
\* this.setupSystems.
RegisterCoreSetups(list) == list \o CoreSetupSystems

\* A setup system registered by _registerCoreSystems.
BuiltInSetup(setup) == setup.init \in { "lighting", "bodies", "camera" }

\* The resources _registerCoreSystems registers with registerResource, in
\* order; each factory awaits a setup function of the engine ("core").
CoreResourceNames == << "renderer", "physics", "input", "assets" >>

RECURSIVE RegisterResources(_, _)
RegisterResources(m, names) ==
    IF names = << >> THEN m
    ELSE RegisterResources(MapSet(m, Head(names), "core", Null), Tail(names))

\* _registerCoreSystems() on the three collections (this.initialized is
\* false whenever init() gets to call it, so no registration throws).
CoreResources(m) ==
    RegisterResources(AddResource(m, "eventBus", "engine").res,
                      CoreResourceNames)

---------------------------------------------------------------------------
\* What the game code registers. Functions are named by what they do.

\* Resource factories: "empty" resolves to undefined, "throw" throws or
\* rejects.
UserResources ==
    { [name |-> "audio", factory |-> "empty"],
      [name |-> "net", factory |-> "throw"] }

\* Setup systems: init "ok" returns, "throw" throws or rejects, "inject"
\* calls engine.addResource("terrain", ...) as registerSetup's example does.
UserSetups ==
    { Setup("spawn", << "physics" >>, "ok"),
      Setup("terrainSetup", << >>, "inject"),
      Setup("broken", << "renderer" >>, "throw"),
      Setup("mixer", << "audio" >>, "ok") }

\* Runtime systems: update "ok" returns, "throw" throws.
UserSystems ==
    { Sys("playerMovement", << "physics" >>, 30, "ok"),
      Sys("hud", << >>, 10, "throw"),
      Sys("terrainLogic", << "terrain" >>, 10, "ok") }

\* A second game, whose registrations meet the engine's own: a resource
\* under a built-in name, with a factory "custom" of its own; a setup
\* system under the built-in name "camera"; a setup system that injects
\* "terrain" and one that depends on it; a setup system whose init
\* function awaits engine.init(); a setup system whose init function
\* calls engine.registerResource("renderer", ...) with a factory "late" of
\* its own; and a runtime system that injects
\* "terrain" in its update function, in front of one that depends on it.
Game2Resources == { [name |-> "renderer", factory |-> "custom"] }

Game2Systems ==
    { Sys("terrainLoader", << >>, 5, "inject"),
      Sys("terrainLogic", << "terrain" >>, 10, "ok") }

Game2Setups ==
    { Setup("camera", << >>, "ok"),
      Setup("terrainSetup", << >>, "inject"),
      Setup("terrainUser", << "terrain" >>, "ok"),
      Setup("reenter", << >>, "reenter"),
      Setup("swapRenderer", << >>, "register") }

\* What that last init function passes to registerResource.
LateResource == [name |-> "renderer", factory |-> "late"]

\* The configuration objects init() is called with.
Configs == { "plain", "debug" }
Debug(cfg) == cfg = "debug"

\* The engine's own modules that may fail: the asynchronous factory of a
\* core resource, the setup function behind a core setup system, a core
\* runtime system in one frame.
FailableFactories == { "physics" }
FailableSetups == { "physicsBodyCreation" }
FaultSets == { {}, { "inputInterpretation", "physicsStep" } }

---------------------------------------------------------------------------
\* The setup phase.

\* The instances of the object _getDependencies returned, in the order of
\* the names.
Instances(deps) == [k \in 1..Len(deps) |-> deps[k].instance]

\* An init() that hands every factory a copy of the configuration object.
FactoryArgsCopy(cfg) == << "copy" >>

\* The arguments of resource.factory(gameConfig).
FactoryArgs(cfg) == << cfg >>

\* The arguments of setup.init(this.world, deps, gameConfig, this).
InitArgs(deps, cfg) == << "world", Instances(deps), cfg, "engine" >>

\* setup.init(world, deps, gameConfig, this) on registry m: whether it
\* threw, and the registry it leaves. `fault`: the engine module behind a
\* core setup system fails.
CallInit(setup, m, fault) ==
    CASE setup.init = "ok" -> [threw |-> FALSE, res |-> m]
      [] setup.init = "throw" -> [threw |-> TRUE, res |-> m]
      [] setup.init = "inject" ->
            [threw |-> AddResource(m, "terrain", "injected").threw,
             res |-> AddResource(m, "terrain", "injected").res]
      [] setup.init = "lighting" ->
            IF fault THEN [threw |-> TRUE, res |-> m]
            ELSE [threw |-> AddResource(m, "lighting", "made").threw,
                  res |-> AddResource(m, "lighting", "made").res]
      [] setup.init = "camera" ->
            IF fault THEN [threw |-> TRUE, res |-> m]
            ELSE [threw |-> AddResource(m, "camera", "made").threw,
                  res |-> AddResource(m, "camera", "made").res]
      [] setup.init = "bodies" -> [threw |-> fault, res |-> m]
      [] setup.init = "reenter" -> [threw |-> FALSE, res |-> m]
      [] setup.init = "register" ->
            [threw |-> FALSE,
             res |-> MapSet(m, LateResource.name, LateResource.factory, Null)]

\* The init function of the setup system awaits a promise of its own
\* making before it returns: "reenter" awaits engine.init(gameConfig), the
\* engine being the fourth argument it is called with.
Awaits(setup) == setup.init = "reenter"

\* A catch block that rethrows the error as it came.
SetupFailureRaw(setup, cause) == Err("error", "none", cause)

\* The catch block of _runSetupSystem: the error is thrown again wrapped in
\* a message that names the setup system.
SetupFailure(setup, cause) == Err("setupFailed", setup.name, cause)

\* A _runSetupSystem without the loop that looks its dependencies up.
UnknownDepsUnchecked(setup, m) == {}

\* The dependency names of a setup system that the registry does not hold.
UnknownDeps(setup, m) ==
    { k \in 1..Len(setup.dependencies) : ~MapHas(m, setup.dependencies[k]) }

\* _runSetupSystem(setup, completed, inProgress, gameConfig): how the call
\* ended, the error it threw, the registry and the two sets it leaves, and
\* whether setup.init was invoked, the dependency object gathered for it,
\* and what it passed to registerResource.
RunSetupSystem(setup, m, done, busy, fault) ==
    LET quiet == [status |-> "skipped", error |-> NoError, res |-> m,
                  completed |-> done, inProgress |-> busy, invoked |-> FALSE,
                  deps |-> GetDependencies(m, setup.dependencies).deps,
                  passed |-> {}]
        deps == GetDependencies(m, setup.dependencies)
        call == CallInit(setup, m, fault)
    IN  IF setup.name \in done THEN quiet
        ELSE IF setup.name \in busy
        THEN [quiet EXCEPT !.status = "threw",
                           !.error = Err("circular", setup.name, "none")]
        ELSE IF UnknownDeps(setup, m) # {}
        THEN [quiet EXCEPT !.status = "threw",
                !.error = Err("unknownResource", setup.name,
                    setup.dependencies[CHOOSE k \in UnknownDeps(setup, m) :
                        \A j \in UnknownDeps(setup, m) : k <= j])]
        ELSE IF deps.threw
        THEN [quiet EXCEPT !.status = "threw",
                           !.error = SetupFailure(setup, deps.missing)]
        ELSE IF Awaits(setup)
        THEN [quiet EXCEPT !.status = "awaiting",
                           !.inProgress = busy \cup { setup.name },
                           !.invoked = TRUE]
        ELSE IF call.threw
        THEN [quiet EXCEPT !.status = "threw",
                           !.error = SetupFailure(setup, "init"),
                           !.res = call.res, !.invoked = TRUE]
        ELSE [quiet EXCEPT !.status = "ok", !.res = call.res,
                           !.completed = done \cup { setup.name },
                           !.invoked = TRUE,
                           !.passed = IF setup.init = "register"
                                      THEN { LateResource } ELSE {}]

---------------------------------------------------------------------------
\* The frame.

\* system.update(this.world, deps, deltaTime) throws.
UpdateThrows(sys, faults) ==
    \/ sys.update = "throw"
    \/ sys.update = "core" /\ sys.name \in faults

\* system.update(this.world, deps, deltaTime) on registry m: whether it
\* threw, and the registry it leaves. An update function "inject" calls
\* engine.addResource("terrain", ...) on the engine it closes over.
CallUpdate(sys, m, faults) ==
    IF sys.update = "inject"
    THEN [threw |-> AddResource(m, "terrain", "streamed").threw,
          res |-> AddResource(m, "terrain", "streamed").res]
    ELSE [threw |-> UpdateThrows(sys, faults), res |-> m]

\* One turn of update()'s for loop, for system sys, on registry m: the try
\* block and its catch. `called`: system.update was invoked; `threw`: the
\* catch ran; `got`: the instances of the dependency object update was
\* called with; `res`: the registry the turn leaves.
VisitSystem(sys, m, faults) ==
    LET deps == GetDependencies(m, sys.dependencies)
        call == CallUpdate(sys, m, faults)
    IN  [entry |->
            [name |-> sys.name, reg |-> sys.reg, priority |-> sys.priority,
             called |-> ~deps.threw,
             threw |-> deps.threw \/ call.threw,
             ready |-> \A k \in 1..Len(sys.dependencies) :
                           Available(m, sys.dependencies[k]),
             got |-> IF deps.threw THEN << >> ELSE Instances(deps.deps)],
         res |-> IF deps.threw THEN m ELSE call.res]

\* The one element of a set of one element.
Only(set) == CHOOSE x \in set : TRUE

\* An update() without the try/catch in its loop: the first system that
\* throws ends the pass.
RECURSIVE RunSystemsAbortFrom(_, _, _, _, _)
RunSystemsAbortFrom(systems, m, faults, k, log) ==
    IF k > Len(systems) THEN [log |-> log, res |-> m]
    ELSE Only({ IF visit.entry.threw
                THEN [log |-> Append(log, visit.entry), res |-> visit.res]
                ELSE RunSystemsAbortFrom(systems, visit.res, faults, k + 1,
                                         Append(log, visit.entry)) :
                visit \in { VisitSystem(systems[k], m, faults) } })

RunSystemsAbort(systems, m, faults) ==
    RunSystemsAbortFrom(systems, m, faults, 1, << >>)

\* An update() that resolves the dependencies of every system against the
\* registry as it was when the frame began.
RECURSIVE RunSystemsFromStale(_, _, _, _, _)
RunSystemsFromStale(systems, m, faults, k, log) ==
    IF k > Len(systems) THEN [log |-> log, res |-> m]
    ELSE RunSystemsFromStale(systems, m, faults, k + 1,
             Append(log, VisitSystem(systems[k], m, faults).entry))

\* update()'s for loop over this.runtimeSystems from position k on, m being
\* the registry when the turn of system k begins: the systems it visited
\* and the registry it leaves.
RECURSIVE RunSystemsFrom(_, _, _, _, _)
RunSystemsFrom(systems, m, faults, k, log) ==
    IF k > Len(systems) THEN [log |-> log, res |-> m]
    ELSE Only({ RunSystemsFrom(systems, visit.res, faults, k + 1,
                               Append(log, visit.entry)) :
                visit \in { VisitSystem(systems[k], m, faults) } })

RunSystems(systems, m, faults) == RunSystemsFrom(systems, m, faults, 1, << >>)

\* render(): "drew" after the draw call, else the error getResource threw.
Render(m) ==
    IF GetResource(m, "renderer").threw
    THEN [drew |-> FALSE, error |-> GetResource(m, "renderer").error]
    ELSE IF GetResource(m, "camera").threw
    THEN [drew |-> FALSE, error |-> GetResource(m, "camera").error]
    ELSE [drew |-> TRUE, error |-> NoError]

---------------------------------------------------------------------------
\* The event bus.

Events == { "hit", "score" }

\* Listener functions, named by what they do when invoked for event e:
\* "log" returns; "once" calls off(e, itself); "kick" calls off(e, log);
\* "join" calls on(e, late); "late" returns; "boom" throws.
Listeners == { "log", "once", "kick", "join", "late", "boom" }

\* The on() and off() calls the game code makes from outside a listener.
Subscriptions ==
    { << "hit", "log" >>, << "hit", "once" >>, << "hit", "kick" >>,
      << "hit", "join" >>, << "hit", "late" >>, << "hit", "boom" >>,
      << "score", "log" >> }

\* this.eventListeners.has(e); the Map is a function on the names it holds.
HasListeners(m, e) == e \in DOMAIN m

\* Array.prototype.lastIndexOf: the last position (from 0) of cb, or -1.
LastIndexOf(list, cb) ==
    IF \E k \in 1..Len(list) : list[k] = cb
    THEN (CHOOSE k \in 1..Len(list) :
              /\ list[k] = cb
              /\ \A j \in (k + 1)..Len(list) : list[j] # cb) - 1
    ELSE -1

\* Array.prototype.indexOf: the first position (from 0) of cb, or -1.
IndexOf(list, cb) ==
    IF \E k \in 1..Len(list) : list[k] = cb
    THEN (CHOOSE k \in 1..Len(list) :
              /\ list[k] = cb
              /\ \A j \in 1..(k - 1) : list[j] # cb) - 1
    ELSE -1

\* list.splice(index, 1), index counted from 0.
Splice(list, index) ==
    SubSeq(list, 1, index) \o SubSeq(list, index + 2, Len(list))

\* on(e, cb) on the Map m.
On(m, e, cb) ==
    IF ~HasListeners(m, e) THEN m @@ (e :> << cb >>)
    ELSE [m EXCEPT ![e] = Append(@, cb)]

\* off(e, cb) on the Map m.
Off(m, e, cb) ==
    IF HasListeners(m, e) /\ IndexOf(m[e], cb) > -1
    THEN [m EXCEPT ![e] = Splice(@, IndexOf(m[e], cb))]
    ELSE m

\* listener(data) for an emission of e: the Map it leaves, whether it threw,
\* and what it subscribed and unsubscribed.
Invoke(cb, m, e) ==
    LET quiet == [map |-> m, threw |-> FALSE, added |-> << >>,
                  removed |-> << >>]
    IN  CASE cb = "once" ->
                 [quiet EXCEPT !.map = Off(m, e, "once"),
                               !.removed = << "once" >>]
          [] cb = "kick" ->
                 [quiet EXCEPT !.map = Off(m, e, "log"),
                               !.removed = << "log" >>]
          [] cb = "join" ->
                 [quiet EXCEPT !.map = On(m, e, "late"),
                               !.added = << "late" >>]
          [] cb = "boom" -> [quiet EXCEPT !.threw = TRUE]
          [] OTHER -> quiet

\* The loop of an emit() without try/catch: a listener that throws ends the
\* loop, and emit() throws.
RECURSIVE EmitFromUncaught(_, _, _, _, _)
EmitFromUncaught(m, e, listeners, k, out) ==
    IF k > Len(listeners) THEN [out EXCEPT !.map = m]
    ELSE LET call == Invoke(listeners[k], m, e)
             next == [out EXCEPT
                        !.delivered = Append(@, [cb |-> listeners[k],
                                                 threw |-> call.threw]),
                        !.added = @ \o call.added,
                        !.removed = @ \o call.removed]
         IN  IF call.threw
             THEN [next EXCEPT !.map = call.map, !.threw = TRUE]
             ELSE EmitFromUncaught(call.map, e, listeners, k + 1, next)

\* emit()'s for loop over its copy `listeners` from position k on; the
\* catch lets the loop go on after a listener that threw.
RECURSIVE EmitFrom(_, _, _, _, _)
EmitFrom(m, e, listeners, k, out) ==
    IF k > Len(listeners) THEN [out EXCEPT !.map = m]
    ELSE LET call == Invoke(listeners[k], m, e)
         IN  EmitFrom(call.map, e, listeners, k + 1,
                 [out EXCEPT
                    !.delivered = Append(@, [cb |-> listeners[k],
                                             threw |-> call.threw]),
                    !.added = @ \o call.added,
                    !.removed = @ \o call.removed])

\* An emit() that iterates this.eventListeners.get(e) itself, not a copy.
RECURSIVE EmitLiveFrom(_, _, _, _)
EmitLiveFrom(m, e, k, out) ==
    IF k > Len(m[e]) THEN [out EXCEPT !.map = m]
    ELSE LET call == Invoke(m[e][k], m, e)
         IN  EmitLiveFrom(call.map, e, k + 1,
                 [out EXCEPT
                    !.delivered = Append(@, [cb |-> m[e][k],
                                             threw |-> call.threw]),
                    !.added = @ \o call.added,
                    !.removed = @ \o call.removed])

EmitLive(m, e) ==
    LET none == [map |-> m, delivered |-> << >>, added |-> << >>,
                 removed |-> << >>, threw |-> FALSE]
    IN  IF HasListeners(m, e) THEN EmitLiveFrom(m, e, 1, none) ELSE none

\* An emit() that passes over a listener of its copy that is no longer
\* subscribed when its turn comes.
RECURSIVE EmitRecheckFrom(_, _, _, _, _)
EmitRecheckFrom(m, e, listeners, k, out) ==
    IF k > Len(listeners) THEN [out EXCEPT !.map = m]
    ELSE IF IndexOf(m[e], listeners[k]) = -1
    THEN EmitRecheckFrom(m, e, listeners, k + 1, out)
    ELSE LET call == Invoke(listeners[k], m, e)
         IN  EmitRecheckFrom(call.map, e, listeners, k + 1,
                 [out EXCEPT
                    !.delivered = Append(@, [cb |-> listeners[k],
                                             threw |-> call.threw]),
                    !.added = @ \o call.added,
                    !.removed = @ \o call.removed])

EmitRecheck(m, e) ==
    LET none == [map |-> m, delivered |-> << >>, added |-> << >>,
                 removed |-> << >>, threw |-> FALSE]
    IN  IF HasListeners(m, e) THEN EmitRecheckFrom(m, e, m[e], 1, none)
        ELSE none

\* emit(e, data) on the Map m: the Map it leaves, the listeners it invoked,
\* what they subscribed and unsubscribed, and whether emit() threw.
Emit(m, e) ==
    LET none == [map |-> m, delivered |-> << >>, added |-> << >>,
                 removed |-> << >>, threw |-> FALSE]
    IN  IF HasListeners(m, e) THEN EmitFrom(m, e, m[e], 1, none) ELSE none

---------------------------------------------------------------------------
\* The engine after `new GameSystems()`.

NoRender == [drew |-> FALSE, error |-> NoError, at |-> {}]

EngineInit ==
    /\ resources = << >>
    /\ setupSystems = << >>
    /\ runtimeSystems = << >>
    /\ initialized = FALSE
    /\ gameConfig = "undefined"
    /\ pc = "idle"
    /\ cursor = 0
    /\ completed = {}
    /\ inProgress = {}
    /\ initPromise = "none"
    /\ initError = NoError
    /\ rafPending = FALSE
    /\ lastError = NoError
    /\ factoryLog = << >>
    /\ setupLog = << >>
    /\ frameLog = << >>
    /\ prevLog = << >>
    /\ renderLog = NoRender
    /\ initCalls = 0
    /\ regs = 0
    /\ passed = {}
    /\ ranBefore = {}
    /\ clock = 0
    /\ stack = << >>

BusInit ==
    /\ eventListeners = << >>
    /\ emitEvent = "none"
    /\ emitBefore = << >>
    /\ delivered = << >>
    /\ emitAdded = << >>
    /\ emitRemoved = << >>
    /\ fresh = [e \in Events |-> << >>]
    /\ emitOwed = << >>
    /\ busOps = 0

Init == EngineInit /\ BusInit

---------------------------------------------------------------------------
\* Registration.

\* The game code registers before its first init() call; once the engine is
\* initialized it may try again.
GameRegisters == initPromise = "none" \/ initialized

RegistrationCalls == { "registerResource", "registerSetup", "registerSystem" }

\* A registration function without its guard.
NeverThrows == FALSE

\* The guards of the three registration functions: the call throws.
RegisterResourceThrows == initialized
RegisterSetupThrows == initialized
RegisterSystemThrows == initialized

\* registerResource(r.name, r.factory), called by the game code, when it
\* does not throw.
RegisterResource(r) ==
    /\ pc = "idle"
    /\ ~RegisterResourceThrows
    /\ GameRegisters
    /\ regs < MaxRegs
    /\ resources' = MapSet(resources, r.name, r.factory, Null)
    /\ regs' = regs + 1
    /\ passed' = passed \cup { r }
    /\ lastError' = NoError
    /\ UNCHANGED << setupSystems, runtimeSystems, initialized, gameConfig,
                    pc, cursor, completed, inProgress, initPromise,
                    initError, rafPending, factoryLog, setupLog, frameLog,
                    prevLog, renderLog, initCalls >>
    /\ UNCHANGED << ranBefore, clock, stack >>
    /\ UNCHANGED busVars

\* registerSetup(s.name, {init, dependencies}), called by the game code,
\* when it does not throw.
RegisterSetup(s) ==
    /\ pc = "idle"
    /\ ~RegisterSetupThrows
    /\ GameRegisters
    /\ regs < MaxRegs
    /\ setupSystems' = Append(setupSystems, s)
    /\ regs' = regs + 1
    /\ lastError' = NoError
    /\ UNCHANGED << resources, runtimeSystems, initialized, gameConfig, pc,
                    cursor, completed, inProgress, initPromise, initError,
                    rafPending, factoryLog, setupLog, frameLog, prevLog,
                    renderLog, initCalls >>
    /\ UNCHANGED << passed, ranBefore, clock, stack >>
    /\ UNCHANGED busVars

\* registerSystem(s.name, {update, dependencies, priority}), called by the
\* game code, when it does not throw.
RegisterSystem(s) ==
    /\ pc = "idle"
    /\ ~RegisterSystemThrows
    /\ GameRegisters
    /\ regs < MaxRegs
    /\ runtimeSystems' = PushSystem(runtimeSystems, s)
    /\ regs' = regs + 1
    /\ lastError' = NoError
    /\ UNCHANGED << resources, setupSystems, initialized, gameConfig, pc,
                    cursor, completed, inProgress, initPromise, initError,
                    rafPending, factoryLog, setupLog, frameLog, prevLog,
                    renderLog, initCalls >>
    /\ UNCHANGED << passed, ranBefore, clock, stack >>
    /\ UNCHANGED busVars

\* A call of one of the three registration functions that throws (whatever
\* its arguments): nothing but the error is left behind.
RegisterRefused(call) ==
    /\ pc = "idle"
    /\ \/ call = "registerResource" /\ RegisterResourceThrows
       \/ call = "registerSetup" /\ RegisterSetupThrows
       \/ call = "registerSystem" /\ RegisterSystemThrows
    /\ lastError' = Err("lifecycle", call, "none")
    /\ UNCHANGED << resources, setupSystems, runtimeSystems, initialized,
                    gameConfig, pc, cursor, completed, inProgress,
                    initPromise, initError, rafPending, factoryLog, setupLog,
                    frameLog, prevLog, renderLog, initCalls, regs >>
    /\ UNCHANGED << passed, ranBefore, clock, stack >>
    /\ UNCHANGED busVars

---------------------------------------------------------------------------
\* init().

\* init()'s guard: the call throws, that is, the promise it returns is
\* rejected at once.
InitThrows == initialized

\* init(cfg) when its guard throws: nothing but the error is left behind.
InitRefused ==
    /\ pc = "idle"
    /\ InitThrows
    /\ lastError' = Err("lifecycle", "init", "none")
    /\ UNCHANGED << resources, setupSystems, runtimeSystems, initialized,
                    gameConfig, pc, cursor, completed, inProgress,
                    initPromise, initError, rafPending, factoryLog, setupLog,
                    frameLog, prevLog, renderLog, initCalls, regs >>
    /\ UNCHANGED << passed, ranBefore, clock, stack >>
    /\ UNCHANGED busVars

\* The positions of this.setupSystems whose init function the running
\* init() call has invoked.
Invoked(log) == { log[k].pos : k \in { j \in 1..Len(log) : log[j].invoked } }

\* init(cfg) past its guard, up to its first await: _registerCoreSystems,
\* the optional debug system, and the entry into the try block.
StartInit(cfg) ==
    /\ initCalls' = initCalls + 1
    /\ lastError' = NoError
    /\ gameConfig' = cfg
    /\ resources' = CoreResources(resources)
    /\ setupSystems' = RegisterCoreSetups(setupSystems)
    /\ runtimeSystems' =
          IF Debug(cfg)
          THEN PushSystem(PushSystems(runtimeSystems, CoreRuntimeSystems),
                          DebugRenderer)
          ELSE PushSystems(runtimeSystems, CoreRuntimeSystems)
    /\ initPromise' = "pending"
    /\ initError' = NoError
    /\ pc' = "factories"
    /\ cursor' = 1
    /\ factoryLog' = << >>
    /\ setupLog' = << >>
    /\ ranBefore' = ranBefore \cup Invoked(setupLog)
    /\ UNCHANGED << initialized, completed, inProgress, rafPending,
                    frameLog, prevLog, renderLog, regs, passed, clock >>
    /\ UNCHANGED busVars

\* init(cfg), called by the game code while no init() call is running. The
\* game code calls init() again with the configuration it used before.
InitCall(cfg) ==
    /\ pc = "idle"
    /\ ~InitThrows
    /\ initCalls < MaxInits
    /\ gameConfig \in { "undefined", cfg }
    /\ StartInit(cfg)
    /\ UNCHANGED stack

\* init(gameConfig), called by the init function of the setup system at
\* `cursor`, which awaits it: the calling init() stays suspended in its
\* await of _runSetupSystem, with its locals.
ReenterInit ==
    /\ pc = "inInit"
    /\ ~InitThrows
    /\ initCalls < MaxInits
    /\ stack' = Append(stack, [pc |-> pc, cursor |-> cursor,
                               completed |-> completed,
                               inProgress |-> inProgress,
                               factoryLog |-> factoryLog,
                               setupLog |-> setupLog])
    /\ StartInit(gameConfig)

\* init(gameConfig), called by the game code while an earlier init() call
\* is suspended at an await of phase 1 or phase 2: the guard finds
\* this.initialized false. The earlier call stays suspended with its locals.
InitCallDuring ==
    /\ pc \in { "factories", "setups" }
    /\ ~InitThrows
    /\ initCalls < MaxInits
    /\ stack' = Append(stack, [pc |-> pc, cursor |-> cursor,
                               completed |-> completed,
                               inProgress |-> inProgress,
                               factoryLog |-> factoryLog,
                               setupLog |-> setupLog])
    /\ StartInit(gameConfig)

\* The promise a suspended init() call awaits settles before the one the
\* running call awaits: the suspended call is the one to go on.
Switch ==
    /\ pc \in { "factories", "setups" }
    /\ stack # << >>
    /\ stack[Len(stack)].pc \in { "factories", "setups" }
    /\ LET other == stack[Len(stack)]
       IN  /\ stack' = [stack EXCEPT ![Len(stack)] =
                           [pc |-> pc, cursor |-> cursor,
                            completed |-> completed,
                            inProgress |-> inProgress,
                            factoryLog |-> factoryLog,
                            setupLog |-> setupLog]]
           /\ pc' = other.pc
           /\ cursor' = other.cursor
           /\ completed' = other.completed
           /\ inProgress' = other.inProgress
           /\ factoryLog' = other.factoryLog
           /\ setupLog' = other.setupLog
    /\ UNCHANGED << resources, setupSystems, runtimeSystems, initialized,
                    gameConfig, initPromise, initError, rafPending,
                    lastError, frameLog, prevLog, renderLog, initCalls,
                    regs, passed, ranBefore, clock >>
    /\ UNCHANGED busVars

\* What becomes of pc when the running init() call settles: a call whose
\* setup system awaited it is resumed by its rejection ("unwind"), a call
\* the game code made earlier goes on when its own await settles
\* ("settled").
AfterSettling(unwinds) ==
    IF stack = << >> THEN "idle"
    ELSE IF unwinds /\ stack[Len(stack)].pc = "inInit" THEN "unwind"
    ELSE "settled"

\* A catch block in init() that logs the error and does not throw it again.
RejectSwallowed(error) ==
    /\ pc' = AfterSettling(TRUE)
    /\ initPromise' = "fulfilled"
    /\ initError' = NoError

\* The promise of the running init() call rejects with `error`; a setup
\* system's init function that awaits it is resumed next.
Reject(error) ==
    /\ pc' = AfterSettling(TRUE)
    /\ initPromise' = "rejected"
    /\ initError' = error

\* Phase 1, one turn of the for-of loop over this.resources: the factory of
\* the entry at `cursor` is invoked and awaited. `fault`: the engine module
\* behind a core factory fails.
FactoryStep(fault) ==
    /\ pc = "factories"
    /\ cursor <= Len(resources)
    /\ LET e == resources[cursor]
           fails == \/ e.factory = "throw"
                    \/ e.factory = "core" /\ fault
       IN  /\ fault => e.factory = "core" /\ e.name \in FailableFactories
           /\ IF e.factory = Null
              THEN /\ cursor' = cursor + 1
                   /\ UNCHANGED << resources, factoryLog, pc, initPromise,
                                   initError >>
              ELSE /\ factoryLog' = Append(factoryLog,
                                         [name |-> e.name, pos |-> cursor,
                                          factory |-> e.factory,
                                          args |-> FactoryArgs(gameConfig),
                                          threw |-> fails])
                   /\ IF fails
                      THEN /\ Reject(Err("factory", e.name, "none"))
                           /\ UNCHANGED << resources, cursor >>
                      ELSE /\ resources' =
                                 [resources EXCEPT ![cursor].instance =
                                     IF e.factory = "empty" THEN Null
                                     ELSE "made"]
                           /\ cursor' = cursor + 1
                           /\ UNCHANGED << pc, initPromise, initError >>
    /\ lastError' = NoError
    /\ UNCHANGED << setupSystems, runtimeSystems, initialized, gameConfig,
                    completed, inProgress, rafPending, setupLog, frameLog,
                    prevLog, renderLog, initCalls, regs >>
    /\ UNCHANGED << passed, ranBefore, clock, stack >>
    /\ UNCHANGED busVars

\* An init() that goes on to phase 2 whatever factories are still to come.
BeginSetupsEarly ==
    /\ pc = "factories"
    /\ pc' = "setups"
    /\ cursor' = 1
    /\ completed' = {}
    /\ inProgress' = {}
    /\ lastError' = NoError
    /\ UNCHANGED << resources, setupSystems, runtimeSystems, initialized,
                    gameConfig, initPromise, initError, rafPending,
                    factoryLog, setupLog, frameLog, prevLog, renderLog, initCalls, regs >>
    /\ UNCHANGED << passed, ranBefore, clock, stack >>
    /\ UNCHANGED busVars

\* The for-of loop over this.resources is through: phase 2 begins with two
\* empty sets.
BeginSetups ==
    /\ pc = "factories"
    /\ cursor > Len(resources)
    /\ pc' = "setups"
    /\ cursor' = 1
    /\ completed' = {}
    /\ inProgress' = {}
    /\ lastError' = NoError
    /\ UNCHANGED << resources, setupSystems, runtimeSystems, initialized,
                    gameConfig, initPromise, initError, rafPending,
                    factoryLog, setupLog, frameLog, prevLog, renderLog, initCalls, regs >>
    /\ UNCHANGED << passed, ranBefore, clock, stack >>
    /\ UNCHANGED busVars

\* Phase 2, one turn of the for-of loop over this.setupSystems:
\* await this._runSetupSystem(setup, completed, inProgress, gameConfig).
SetupStep(fault) ==
    /\ pc = "setups"
    /\ cursor <= Len(setupSystems)
    /\ LET setup == setupSystems[cursor]
           run == RunSetupSystem(setup, resources, completed, inProgress,
                                 fault)
       IN  /\ fault => setup.name \in FailableSetups /\ BuiltInSetup(setup)
           /\ resources' = run.res
           /\ completed' = run.completed
           /\ inProgress' = run.inProgress
           /\ setupLog' = Append(setupLog,
                 [name |-> setup.name, pos |-> cursor, status |-> run.status,
                  invoked |-> run.invoked,
                  args |-> IF run.invoked THEN InitArgs(run.deps, gameConfig)
                           ELSE << >>,
                  ready |-> \A k \in 1..Len(setup.dependencies) :
                                Available(resources, setup.dependencies[k])])
           /\ CASE run.status = "threw" ->
                      Reject(run.error) /\ UNCHANGED cursor
                [] run.status = "awaiting" ->
                      /\ pc' = "inInit"
                      /\ UNCHANGED << cursor, initPromise, initError >>
                [] OTHER ->
                      /\ cursor' = cursor + 1
                      /\ UNCHANGED << pc, initPromise, initError >>
           /\ passed' = passed \cup run.passed
    /\ lastError' = NoError
    /\ UNCHANGED << setupSystems, runtimeSystems, initialized, gameConfig,
                    rafPending, factoryLog, frameLog, prevLog, renderLog, initCalls, regs >>
    /\ UNCHANGED << ranBefore, clock, stack >>
    /\ UNCHANGED busVars

\* The nested init() call rejected: the init function that awaited it
\* rejects in turn, and the catch block of the suspended _runSetupSystem
\* call clears inProgress and throws the wrapped error, which rejects the
\* suspended init() call.
ResumeRejected ==
    /\ pc = "unwind"
    /\ LET outer == stack[Len(stack)]
           setup == setupSystems[outer.cursor]
       IN  /\ stack' = SubSeq(stack, 1, Len(stack) - 1)
           /\ cursor' = outer.cursor
           /\ completed' = outer.completed
           /\ inProgress' = outer.inProgress \ { setup.name }
           /\ factoryLog' = outer.factoryLog
           /\ setupLog' = [outer.setupLog EXCEPT
                             ![Len(outer.setupLog)].status = "threw"]
           /\ initPromise' = "rejected"
           /\ initError' = SetupFailure(setup, "init")
           /\ pc' = IF Len(stack) = 1 THEN "idle" ELSE "unwind"
    /\ ranBefore' = ranBefore \cup Invoked(setupLog)
    /\ lastError' = NoError
    /\ UNCHANGED << resources, setupSystems, runtimeSystems, initialized,
                    gameConfig, rafPending, frameLog, prevLog, renderLog,
                    initCalls, regs, passed, clock >>
    /\ UNCHANGED busVars

\* The running init() call has settled and an init() call the game code
\* made earlier is still suspended at its await: that call goes on, with
\* its locals, on the engine as it is now.
ResumeOther ==
    /\ pc = "settled"
    /\ LET other == stack[Len(stack)]
       IN  /\ stack' = SubSeq(stack, 1, Len(stack) - 1)
           /\ pc' = other.pc
           /\ cursor' = other.cursor
           /\ completed' = other.completed
           /\ inProgress' = other.inProgress
           /\ factoryLog' = other.factoryLog
           /\ setupLog' = other.setupLog
    /\ initPromise' = "pending"
    /\ initError' = NoError
    /\ ranBefore' = ranBefore \cup Invoked(setupLog)
    /\ lastError' = NoError
    /\ UNCHANGED << resources, setupSystems, runtimeSystems, initialized,
                    gameConfig, rafPending, frameLog, prevLog, renderLog,
                    initCalls, regs, passed, clock >>
    /\ UNCHANGED busVars

---------------------------------------------------------------------------
\* Frames.

\* An update() that calls this.render() inside its for loop, at the end of
\* every turn.
RenderPointsInLoop(log) == 1..Len(log)

\* Where update() calls this.render(): once, behind its for loop. A call
\* is told by the number of runtime systems the pass has visited by then.
RenderPoints(log) == { Len(log) }

\* The for loop of update(deltaTime) on the engine as it is.
Pass(faults) == RunSystems(runtimeSystems, resources, faults)

\* The body of update(deltaTime) behind its guard, `run` being what the
\* pass over the runtime systems did: render() finds the registry as the
\* pass left it.
Frame(run) ==
    /\ frameLog' = run.log
    /\ prevLog' = frameLog
    /\ resources' = run.res
    /\ renderLog' = [drew |-> Render(run.res).drew,
                     error |-> Render(run.res).error,
                     at |-> RenderPoints(run.log)]

\* The for-of loop over this.setupSystems is through: initialized is set
\* and start() runs animate() once, synchronously, inside init()'s try.
InitFinish(faults) ==
    /\ pc = "setups"
    /\ cursor > Len(setupSystems)
    /\ initialized' = TRUE
    /\ pc' = AfterSettling(FALSE)
    /\ \E run \in { Pass(faults) } :
          /\ Frame(run)
          /\ IF Render(run.res).drew
             THEN /\ rafPending' = TRUE
                  /\ initPromise' = "fulfilled"
                  /\ initError' = NoError
             ELSE /\ rafPending' = FALSE
                  /\ initPromise' = "rejected"
                  /\ initError' = Render(run.res).error
    /\ lastError' = NoError
    /\ UNCHANGED << setupSystems, runtimeSystems, gameConfig,
                    cursor, completed, inProgress, factoryLog, setupLog,
                    initCalls, regs >>
    /\ clock' = 1 - clock
    /\ UNCHANGED << passed, ranBefore, stack >>
    /\ UNCHANGED busVars

\* An animate callback that does not request the next frame.
TickOnce(faults) ==
    /\ rafPending
    /\ pc = "idle"
    /\ \E run \in { Pass(faults) } :
          /\ Frame(run)
          /\ rafPending' = FALSE
          /\ lastError' = Render(run.res).error
    /\ UNCHANGED << setupSystems, runtimeSystems, initialized,
                    gameConfig, pc, cursor, completed, inProgress,
                    initPromise, initError, factoryLog, setupLog, initCalls,
                    regs >>
    /\ clock' = 1 - clock
    /\ UNCHANGED << passed, ranBefore, stack >>
    /\ UNCHANGED busVars

\* The animate callback the host runs for requestAnimationFrame: update(),
\* then the next request, which an update() that throws never reaches.
Tick(faults) ==
    /\ rafPending
    /\ pc = "idle"
    /\ \E run \in { Pass(faults) } :
          /\ Frame(run)
          /\ rafPending' = Render(run.res).drew
          /\ lastError' = Render(run.res).error
    /\ UNCHANGED << setupSystems, runtimeSystems, initialized,
                    gameConfig, pc, cursor, completed, inProgress,
                    initPromise, initError, factoryLog, setupLog, initCalls,
                    regs >>
    /\ clock' = 1 - clock
    /\ UNCHANGED << passed, ranBefore, stack >>
    /\ UNCHANGED busVars

\* update(deltaTime), called by the game code, which leaves the frames to
\* the engine's loop while that runs.
UpdateCall(faults) ==
    /\ pc = "idle"
    /\ ~rafPending
    /\ IF ~initialized
       THEN /\ lastError' = Err("lifecycle", "update", "none")
            /\ UNCHANGED << resources, frameLog, prevLog, renderLog >>
       ELSE \E run \in { Pass(faults) } :
               /\ Frame(run)
               /\ lastError' = Render(run.res).error
    /\ UNCHANGED << setupSystems, runtimeSystems, initialized,
                    gameConfig, pc, cursor, completed, inProgress,
                    initPromise, initError, rafPending, factoryLog, setupLog,
                    initCalls, regs >>
    /\ UNCHANGED << passed, ranBefore, clock, stack >>
    /\ UNCHANGED busVars

\* addResource("terrain", ...), called by the game code between two frames
\* of an initialized engine, as a listener of an event does that the game
\* emits from outside a frame.
AddResourceCall ==
    /\ pc = "idle"
    /\ initialized
    /\ resources' = AddResource(resources, "terrain", "heard").res
    /\ lastError' = AddResource(resources, "terrain", "heard").error
    /\ UNCHANGED << setupSystems, runtimeSystems, initialized, gameConfig,
                    pc, cursor, completed, inProgress, initPromise,
                    initError, rafPending, factoryLog, setupLog, frameLog,
                    prevLog, renderLog, initCalls, regs, passed, ranBefore,
                    clock, stack >>
    /\ UNCHANGED busVars

---------------------------------------------------------------------------
\* The engine's life: registration, init(), frames.

Next ==
    \/ \E r \in UserResources : RegisterResource(r)
    \/ \E s \in UserSetups : RegisterSetup(s)
    \/ \E s \in UserSystems : RegisterSystem(s)
    \/ \E call \in RegistrationCalls : RegisterRefused(call)
    \/ InitRefused
    \/ \E cfg \in Configs : InitCall(cfg)
    \/ \E fault \in BOOLEAN : FactoryStep(fault)
    \/ BeginSetups
    \/ \E fault \in BOOLEAN : SetupStep(fault)
    \/ \E faults \in FaultSets : InitFinish(faults)
    \/ \E faults \in FaultSets : Tick(faults)
    \/ \E faults \in FaultSets : UpdateCall(faults)

Spec == Init /\ [][Next]_vars

\* The engine's life with a game that registers runtime systems and leaves
\* the frames to the engine, when the engine's factories and setup systems
\* do not fail; the host runs the callback of every requestAnimationFrame
\* request.
LoopNext ==
    \/ \E s \in UserSystems : RegisterSystem(s)
    \/ \E cfg \in Configs : InitCall(cfg)
    \/ FactoryStep(FALSE)
    \/ BeginSetups
    \/ SetupStep(FALSE)
    \/ \E faults \in FaultSets : InitFinish(faults)
    \/ \E faults \in FaultSets : Tick(faults)

SpecLoop ==
    Init /\ [][LoopNext]_vars
         /\ WF_vars(\E faults \in FaultSets : Tick(faults))

\* The engine's life with the second game.
Game2Next ==
    \/ \E r \in Game2Resources : RegisterResource(r)
    \/ \E s \in Game2Setups : RegisterSetup(s)
    \/ \E s \in Game2Systems : RegisterSystem(s)
    \/ \E call \in RegistrationCalls : RegisterRefused(call)
    \/ InitRefused
    \/ InitCall("plain")
    \/ ReenterInit
    \/ \E fault \in BOOLEAN : FactoryStep(fault)
    \/ BeginSetups
    \/ \E fault \in BOOLEAN : SetupStep(fault)
    \/ ResumeRejected
    \/ \E faults \in FaultSets : InitFinish(faults)
    \/ \E faults \in FaultSets : Tick(faults)
    \/ \E faults \in FaultSets : UpdateCall(faults)
    \/ AddResourceCall

SpecGame2 == Init /\ [][Game2Next]_vars

\* The engine's life with a game that calls init() again while its earlier
\* init() call is still suspended.
TwoInitsNext ==
    \/ \E s \in UserSetups : RegisterSetup(s)
    \/ InitCall("plain")
    \/ InitCallDuring
    \/ Switch
    \/ \E fault \in BOOLEAN : FactoryStep(fault)
    \/ BeginSetups
    \/ \E fault \in BOOLEAN : SetupStep(fault)
    \/ ResumeOther
    \/ \E faults \in FaultSets : InitFinish(faults)
    \/ \E faults \in FaultSets : Tick(faults)

SpecTwoInits == Init /\ [][TwoInitsNext]_vars

---------------------------------------------------------------------------
\* The event bus, used by the game code.

\* s without the first cb, if it holds one.
Without(s, cb) == IF IndexOf(s, cb) > -1 THEN Splice(s, IndexOf(s, cb)) ELSE s

RECURSIVE WithoutAll(_, _)
WithoutAll(s, cbs) ==
    IF cbs = << >> THEN s ELSE WithoutAll(Without(s, Head(cbs)), Tail(cbs))

\* on(e, cb), called from outside a listener.
OnCall(e, cb) ==
    /\ busOps < MaxBusOps
    /\ busOps' = busOps + 1
    /\ eventListeners' = On(eventListeners, e, cb)
    /\ UNCHANGED << emitEvent, emitBefore, delivered, emitAdded, emitRemoved,
                    fresh, emitOwed >>
    /\ UNCHANGED engineVars

\* off(e, cb), called from outside a listener.
OffCall(e, cb) ==
    /\ busOps < MaxBusOps
    /\ busOps' = busOps + 1
    /\ eventListeners' = Off(eventListeners, e, cb)
    /\ fresh' = [fresh EXCEPT ![e] = Without(@, cb)]
    /\ UNCHANGED << emitEvent, emitBefore, delivered, emitAdded, emitRemoved,
                    emitOwed >>
    /\ UNCHANGED engineVars

\* emit(e, data), called from outside a listener.
EmitCall(e) ==
    /\ busOps < MaxBusOps
    /\ busOps' = busOps + 1
    /\ LET run == Emit(eventListeners, e)
       IN  /\ eventListeners' = run.map
           /\ emitEvent' = e
           /\ emitBefore' = IF HasListeners(eventListeners, e)
                            THEN eventListeners[e] ELSE << >>
           /\ delivered' = run.delivered
           /\ emitAdded' = run.added
           /\ emitRemoved' = run.removed
           /\ emitOwed' = fresh[e]
           /\ lastError' = IF run.threw THEN Err("listener", "emit", e)
                            ELSE NoError
           /\ fresh' = [fresh EXCEPT ![e] = WithoutAll(run.added, run.removed)]
    /\ UNCHANGED << resources, setupSystems, runtimeSystems, initialized,
                    gameConfig, pc, cursor, completed, inProgress,
                    initPromise, initError, rafPending, factoryLog, setupLog,
                    frameLog, prevLog, renderLog, initCalls, regs, passed,
                    ranBefore, clock, stack >>

BusNext ==
    \/ \E s \in Subscriptions : OnCall(s[1], s[2])
    \/ \E s \in Subscriptions : OffCall(s[1], s[2])
    \/ \E e \in Events : EmitCall(e)

SpecBus == Init /\ [][BusNext]_vars

\* ------------------------------------------------------------------------
\* Properties of the runtime system list and of one frame
\* ------------------------------------------------------------------------

\* The names of the systems registered by the game, per priority.
UserNames(priority) == { s.name : s \in { u \in UserSystems : u.priority = priority } }

\* The positions a frame visited are those of this.runtimeSystems, in order.
SameOrder(log, other) ==
    /\ Len(log) = Len(other)
    /\ \A k \in 1..Len(log) : log[k].reg = other[k].reg

\* C1: within one frame a system with a numerically lower priority is
\* visited before every system with a higher one, whatever the order of
\* registration, every registered system is visited, and two consecutive
\* frames with no registration in between visit the systems in the same order.
C1_PriorityOrder ==
    /\ \A log \in { frameLog, prevLog } :
          \A i, j \in 1..Len(log) :
              log[i].priority < log[j].priority => i < j
    /\ frameLog # << >> => SameOrder(frameLog, runtimeSystems)
    /\ prevLog # << >> => SameOrder(prevLog, frameLog)

\* Two frames have run, and in them a system of priority 10 registered by
\* the game after its system of priority 30 was visited before it.
C1_Witness ==
    /\ prevLog # << >>
    /\ \E i, j \in 1..Len(frameLog) :
          /\ frameLog[i].name \in UserNames(10)
          /\ frameLog[j].name \in UserNames(30)
          /\ frameLog[i].reg > frameLog[j].reg
          /\ i < j

\* C2: two systems of equal priority are visited in the order of their
\* registration, in every frame; this holds between a system of the game
\* and a built-in one as well.
C2_StableTies ==
    \A log \in { frameLog, prevLog } :
        \A i, j \in 1..Len(log) :
            (log[i].priority = log[j].priority /\ log[i].reg < log[j].reg)
                => i < j

\* A system of the game with priority 10, registered before init(), was
\* visited before the built-in system of priority 10, and two systems of
\* the game of priority 10 were visited in their registration order.
C2_Witness ==
    \E i, j, k \in 1..Len(frameLog) :
        /\ frameLog[i].name \in UserNames(10)
        /\ frameLog[j].name \in UserNames(10)
        /\ frameLog[k].name = "inputInterpretation"
        /\ i < j /\ j < k
        /\ frameLog[i].reg < frameLog[j].reg

\* C3: a system that throws, in gathering its dependencies or in its update
\* function, does not end the frame: every system after it is still visited
\* and is called exactly when its dependencies are available, and the
\* system that threw is visited again in the next frame.
C3_FailSoft ==
    /\ \A log \in { frameLog, prevLog } :
          log # << >> =>
              /\ Len(log) = Len(runtimeSystems)
              /\ \A k \in 1..Len(log) : log[k].called = log[k].ready
    /\ prevLog # << >> =>
          \A k \in 1..Len(prevLog) :
              prevLog[k].threw =>
                  /\ k <= Len(frameLog)
                  /\ frameLog[k].reg = prevLog[k].reg
                  /\ runtimeSystems[k].reg = prevLog[k].reg

\* In one frame a system threw in its update function and another for its
\* dependencies, systems after both were called, and the system whose update
\* threw was called again in the next frame.
C3_Witness ==
    /\ prevLog # << >>
    /\ \E i, j, k \in 1..Len(prevLog) :
          /\ prevLog[i].threw /\ prevLog[i].called
          /\ prevLog[j].threw /\ ~prevLog[j].called
          /\ i < k /\ j < k
          /\ prevLog[k].called /\ ~prevLog[k].threw
          /\ frameLog[i].called

\* ------------------------------------------------------------------------
\* Properties of init()
\* ------------------------------------------------------------------------

\* The last setup system the running init() call entered.
LastSetup == setupLog[Len(setupLog)]

\* C4: when the init function of a setup system throws, the setup systems
\* registered before it have completed, none registered after it is entered,
\* the promise of init() rejects with an error that names the system, the
\* engine is not initialized and no frame runs.
C4_SetupFailFast ==
    (setupLog # << >> /\ LastSetup.status = "threw" /\ LastSetup.invoked) =>
        /\ initPromise = "rejected"
        /\ initError.kind = "setupFailed"
        /\ initError.name = LastSetup.name
        /\ pc = "idle"
        /\ ~initialized
        /\ ~rafPending
        /\ frameLog = << >>
        /\ \A k \in 1..Len(setupLog) : setupLog[k].pos = k
        /\ \A k \in 1..(Len(setupLog) - 1) :
              /\ setupLog[k].status # "threw"
              /\ setupSystems[k].name \in completed

\* The init function of a setup system threw after an earlier setup system
\* had been invoked and with a later one registered.
C4_Witness ==
    /\ setupLog # << >>
    /\ LastSetup.status = "threw" /\ LastSetup.invoked
    /\ Len(setupLog) >= 2
    /\ setupLog[1].invoked
    /\ Len(setupSystems) > Len(setupLog)

\* C5: the function of a system, setup or runtime, is invoked only when
\* every dependency it declares is registered with a non-null instance.
C5_ResourceGating ==
    /\ \A k \in 1..Len(setupLog) : setupLog[k].invoked => setupLog[k].ready
    /\ \A log \in { frameLog, prevLog } :
          \A k \in 1..Len(log) : log[k].called => log[k].ready

\* A setup system whose only dependency is registered, with a factory that
\* resolved to no instance, was entered and its init function not invoked;
\* and a runtime system whose dependency is missing was passed over.
C5_Witness ==
    /\ setupLog # << >>
    /\ ~LastSetup.invoked /\ ~LastSetup.ready
    /\ LastSetup.status = "threw"
    /\ \A k \in 1..Len(setupSystems[LastSetup.pos].dependencies) :
          MapHas(resources, setupSystems[LastSetup.pos].dependencies[k])
    /\ Len(factoryLog) > 0

\* The names and dependency lists the lookups are tried with.
ProbeNames == { "renderer", "camera", "terrain", "audio", "eventBus", "ghost" }

ProbeLists ==
    { << "renderer", "camera" >>, << "camera", "renderer" >>,
      << "physics", "audio", "ghost" >>, << "eventBus" >>, << >> }

\* The positions of a dependency list that are not available.
Unavailable(names) ==
    { k \in 1..Len(names) : ~Available(resources, names[k]) }

Least(set) == CHOOSE k \in set : \A other \in set : k <= other

\* C6: getResource throws for a name that is not registered or has no
\* instance, and returns the instance otherwise; _getDependencies throws for
\* the first such name in the list and returns no partial map, and
\* otherwise returns the instance of every name of the list; a setup
\* system that was entered with such a dependency fails with that name.
C6_LookupsThrow ==
    /\ \A name \in ProbeNames :
          LET r == GetResource(resources, name)
          IN  IF Available(resources, name)
              THEN /\ ~r.threw
                   /\ r.value = MapGet(resources, name).instance
                   /\ r.value # Null
              ELSE r.threw /\ r.error.detail = name
    /\ \A names \in ProbeLists :
          LET r == GetDependencies(resources, names)
          IN  IF Unavailable(names) = {}
              THEN /\ ~r.threw
                   /\ Len(r.deps) = Len(names)
                   /\ \A k \in 1..Len(names) :
                         /\ r.deps[k].name = names[k]
                         /\ r.deps[k].instance # Null
              ELSE /\ r.threw
                   /\ r.deps = << >>
                   /\ r.missing = names[Least(Unavailable(names))]
    /\ (setupLog # << >> /\ LastSetup.status = "threw" /\ ~LastSetup.invoked
        /\ UnknownDeps(setupSystems[LastSetup.pos], resources) = {}) =>
          LET names == setupSystems[LastSetup.pos].dependencies
          IN  /\ Unavailable(names) # {}
              /\ initError.detail = names[Least(Unavailable(names))]

\* A registry that holds a name with no instance, lacks another name, and
\* holds the first name of a dependency list and not the second; a setup
\* system has failed for a dependency without instance.
C6_Witness ==
    /\ MapHas(resources, "audio") /\ ~Available(resources, "audio")
    /\ ~MapHas(resources, "camera")
    /\ Available(resources, "renderer")
    /\ setupLog # << >>
    /\ LastSetup.status = "threw" /\ ~LastSetup.invoked
    /\ initError.detail = "audio"

\* ------------------------------------------------------------------------
\* Properties of the event bus
\* ------------------------------------------------------------------------

Count(list, cb) == Cardinality({ k \in 1..Len(list) : list[k] = cb })

DeliveredTo == [k \in 1..Len(delivered) |-> delivered[k].cb]

\* C7: every listener subscribed to the event when emit() is called is
\* invoked exactly once per subscription by that call, in subscription
\* order, also when a listener invoked earlier in the call removed it.
C7_EmitSnapshot ==
    emitEvent # "none" => DeliveredTo = emitBefore

\* An emission of at least three listeners in which a listener removed
\* another that had not been invoked yet.
C7_Witness ==
    /\ emitEvent # "none"
    /\ Len(emitBefore) >= 3
    /\ \E i, j \in 1..Len(emitBefore) :
          /\ i < j
          /\ emitBefore[i] \in { "once", "kick" }
          /\ \E r \in 1..Len(emitRemoved) : emitRemoved[r] = emitBefore[j]
          /\ emitBefore[i] # emitBefore[j]

\* C8: a listener subscribed while an event is being emitted is not invoked
\* by that call of emit(), and is invoked by the next call for the event
\* when it is still subscribed.
C8_LateListener ==
    emitEvent # "none" =>
        /\ \A cb \in Listeners :
              Count(DeliveredTo, cb) <= Count(emitBefore, cb)
        /\ \A k \in 1..Len(emitOwed) :
              Count(DeliveredTo, emitOwed[k]) >= 1

\* An emission in which a listener subscribed another one, followed by an
\* emission that invoked it.
C8_Witness ==
    /\ emitEvent # "none"
    /\ emitOwed # << >>
    /\ \E k \in 1..Len(delivered) : delivered[k].cb = emitOwed[1]
    /\ emitAdded # << >>

\* ------------------------------------------------------------------------
\* Properties of registration and of resource factories
\* ------------------------------------------------------------------------

\* C9: after init() has succeeded, registerResource, registerSetup and
\* registerSystem throw, and the registry and the two system lists are as
\* they were before the call.
C9_RegistrationClosed ==
    /\ [](initPromise = "fulfilled" =>
             RegisterResourceThrows /\ RegisterSetupThrows
                 /\ RegisterSystemThrows)
    /\ [][initPromise = "fulfilled" =>
             UNCHANGED << resources, setupSystems, runtimeSystems, regs >>]_vars

\* registerSetup was called after init() had succeeded, and threw.
C9_Witness ==
    /\ initPromise = "fulfilled"
    /\ initialized
    /\ lastError = Err("lifecycle", "registerSetup", "none")

\* The last resource factory the running init() call invoked.
LastFactory == factoryLog[Len(factoryLog)]

\* C10: when a resource factory throws, init() rejects with its error, no
\* factory after it in the registry and no setup system is invoked, the
\* engine is not initialized and the frame loop is not started.
C10_FactoryFailure ==
    (factoryLog # << >> /\ LastFactory.threw) =>
        /\ initPromise = "rejected"
        /\ initError = Err("factory", LastFactory.name, "none")
        /\ pc = "idle"
        /\ setupLog = << >>
        /\ ~initialized
        /\ ~rafPending
        /\ frameLog = << >>
        /\ \A k \in 1..(Len(factoryLog) - 1) :
              /\ ~factoryLog[k].threw
              /\ factoryLog[k].pos < LastFactory.pos

\* A factory threw after an earlier one had resolved, with later factories
\* and setup systems registered.
C10_Witness ==
    /\ factoryLog # << >>
    /\ LastFactory.threw
    /\ Len(factoryLog) >= 2
    /\ LastFactory.pos < Len(resources)
    /\ resources[LastFactory.pos + 1].factory # Null
    /\ setupSystems # << >>

\* ------------------------------------------------------------------------
\* Properties of the phases of init()
\* ------------------------------------------------------------------------

\* The factory at position i of the registry was invoked by the running
\* init() call and resolved.
Resolved(i) ==
    \E k \in 1..Len(factoryLog) :
        factoryLog[k].pos = i /\ ~factoryLog[k].threw

\* C11: within one init() call, every factory of the registry has been
\* invoked and has resolved before the first setup system is entered, and
\* every setup system of the list has been gone through, under a completed
\* name, before the first frame (runtime pass and render) runs.
C11_PhasesOrdered ==
    /\ (pc = "setups" \/ setupLog # << >>) =>
          \A i \in 1..Len(resources) :
              resources[i].factory # Null => Resolved(i)
    /\ frameLog # << >> =>
          /\ initialized
          /\ Len(setupLog) = Len(setupSystems)
          /\ \A i \in 1..Len(setupSystems) :
                /\ setupLog[i].pos = i
                /\ setupLog[i].status # "threw"
                /\ setupSystems[i].name \in completed

\* Frames have run after an init() call that invoked a factory of the game
\* besides the four built-in ones and a setup system of the game besides the
\* three built-in ones.
C11_Witness ==
    /\ frameLog # << >>
    /\ renderLog.drew
    /\ Len(factoryLog) >= 5
    /\ Len(setupLog) >= 4
    /\ \A k \in 1..Len(setupLog) : setupLog[k].invoked

\* The number of times the running init() call invoked the factory f that
\* was registered under name.
TimesInvoked(name, f) ==
    Cardinality({ k \in 1..Len(factoryLog) :
                    factoryLog[k].name = name /\ factoryLog[k].factory = f })

\* C12: when phase 1 of init() is through, every factory that was passed to
\* registerResource, by the game code or by _registerCoreSystems, has been
\* invoked exactly once, and the factories were invoked in the order of
\* the registry.
C12_FactoriesOnce ==
    pc = "setups" =>
        /\ \A p \in passed : TimesInvoked(p.name, p.factory) = 1
        /\ \A k \in 1..Len(CoreResourceNames) :
              TimesInvoked(CoreResourceNames[k], "core") = 1
        /\ \A j, k \in 1..Len(factoryLog) :
              j < k => factoryLog[j].pos < factoryLog[k].pos

\* C13: the init function of a registered setup system is never invoked a
\* second time, neither by the init() call that invoked it nor by an init()
\* call made after that one rejected.
C13_SetupsOnce ==
    \A k \in 1..Len(setupLog) :
        setupLog[k].invoked =>
            /\ setupLog[k].pos \notin ranBefore
            /\ \A j \in 1..(k - 1) :
                  setupLog[j].invoked => setupLog[j].pos # setupLog[k].pos

\* ------------------------------------------------------------------------
\* Properties of render()
\* ------------------------------------------------------------------------

\* C14: a frame that finds no instance under "renderer" or under "camera"
\* skips the draw call in silence: render() and update() return, and
\* nothing is thrown to their caller.
C14_RenderSkipped ==
    (frameLog # << >>
     /\ ~(Available(resources, "renderer") /\ Available(resources, "camera")))
        => /\ ~renderLog.drew
           /\ renderLog.error = NoError
           /\ lastError = NoError
           /\ initPromise # "rejected"

\* ------------------------------------------------------------------------
\* Properties of the frame loop
\* ------------------------------------------------------------------------

\* C15: once init() has succeeded a frame is always requested, and frames
\* keep occurring (the clock is read again and again), whatever runtime
\* systems throw.
C15_LoopNeverStops ==
    /\ [](initPromise = "fulfilled" => rafPending)
    /\ (initPromise = "fulfilled") ~> (clock = 0)
    /\ (initPromise = "fulfilled") ~> (clock = 1)

\* After a successful init() two frames in a row had runtime systems that
\* threw, and the next frame is requested.
C15_Witness ==
    /\ initPromise = "fulfilled"
    /\ rafPending
    /\ prevLog # << >>
    /\ \E k \in 1..Len(prevLog) : prevLog[k].threw /\ prevLog[k].called
    /\ \E k \in 1..Len(frameLog) : frameLog[k].threw /\ frameLog[k].called

\* ------------------------------------------------------------------------
\* Properties of addResource
\* ------------------------------------------------------------------------

\* The names addResource is tried with, in every reachable registry.
InjectedNames ==
    { "eventBus", "renderer", "camera", "terrain", "audio", "ghost" }

InitsInProgress ==
    { setupSystems[stack[k].cursor].name : k \in 1..Len(stack) }

\* C17: a setup system that is entered while its own init function is
\* still in progress is not invoked again: the call ends at once with the
\* circular-dependency error that names it.
C17_CircularDetected ==
    \A k \in 1..Len(setupLog) :
        setupLog[k].name \in InitsInProgress =>
            /\ ~setupLog[k].invoked
            /\ setupLog[k].status = "threw"
            /\ k = Len(setupLog)
            /\ initError = Err("circular", setupLog[k].name, "none")

\* Setup system A injects "terrain" in its init function; setup system B
\* declares the dependency "terrain".
ProviderA == "terrainSetup"
ConsumerB == "terrainUser"

\* C18: when both A and B are registered, in either order, B is not failed
\* for its dependency: when init() gets to B, B's init function is
\* invoked, and A's has been invoked before.
C18_DependencyOrder ==
    \A k \in 1..Len(setupLog) :
        (/\ setupLog[k].name = ConsumerB
         /\ \E i \in 1..Len(setupSystems) : setupSystems[i].name = ProviderA)
            => /\ setupLog[k].invoked
               /\ \E j \in 1..(k - 1) :
                     setupLog[j].name = ProviderA /\ setupLog[j].invoked

\* ------------------------------------------------------------------------
\* Properties of listeners that throw
\* ------------------------------------------------------------------------

\* C19: emit() does not throw, and after a listener that threw every later
\* listener of the copy is still invoked, in its place.
C19_EmitNeverThrows ==
    emitEvent # "none" =>
        /\ lastError = NoError
        /\ \A k \in 1..Len(delivered) :
              delivered[k].threw =>
                  \A j \in (k + 1)..Len(emitBefore) :
                      /\ j <= Len(delivered)
                      /\ delivered[j].cb = emitBefore[j]

\* An emission in which a listener threw and listeners after it were
\* invoked, a second throwing one among them.
C19_Witness ==
    /\ emitEvent # "none"
    /\ \E i, j, k \in 1..Len(delivered) :
          /\ i < j /\ j < k
          /\ delivered[i].threw
          /\ delivered[j].threw
          /\ ~delivered[k].threw

\* ------------------------------------------------------------------------
\* Properties of a missing dependency in a frame
\* ------------------------------------------------------------------------

\* C20: a runtime system whose declared dependency is missing in a frame
\* ends that frame: the error leaves the pass, so no system after it is
\* visited and nothing is drawn.
C20_MissingDependencyFatal ==
    \A k \in 1..Len(frameLog) :
        ~frameLog[k].ready =>
            /\ k = Len(frameLog)
            /\ ~renderLog.drew

\* ------------------------------------------------------------------------
\* Properties of the render call of a frame
\* ------------------------------------------------------------------------

\* C21: a frame calls render() exactly once, and calls it when every
\* runtime system of the list has been visited, whether its update function
\* returned or threw: no render() call lies between two runtime systems.
C21_OneRenderPerFrame ==
    frameLog # << >> =>
        /\ Cardinality(renderLog.at) = 1
        /\ renderLog.at = { Len(runtimeSystems) }
        /\ Len(frameLog) = Len(runtimeSystems)

\* Two frames have run; in the latest a system of the game and a built-in
\* one threw, and render() was called behind the last system and drew.
C21_Witness ==
    /\ prevLog # << >>
    /\ Len(frameLog) > Len(CoreRuntimeSystems)
    /\ \E j, k \in 1..Len(frameLog) :
          /\ frameLog[j].threw /\ frameLog[j].name = "hud"
          /\ frameLog[k].threw /\ frameLog[k].name = "physicsStep"
    /\ renderLog.at = { Len(frameLog) }
    /\ renderLog.drew

\* ------------------------------------------------------------------------
\* Properties of the order of setup systems
\* ------------------------------------------------------------------------

NotRegistered(pos) ==
    SelectSeq(setupSystems[pos].dependencies,
              LAMBDA name : \A i \in 1..Len(resources) : resources[i].name # name)

\* C23: when init() gets to a setup system one of whose declared dependency
\* names has no entry in the registry, the init function is not invoked, the
\* name is put neither in inProgress nor in completed, init() rejects with
\* an error that names the system and the first such dependency, and no
\* setup system after it is entered.
C23_UnknownDependency ==
    \A k \in 1..Len(setupLog) :
        (setupLog[k].status # "skipped" /\ NotRegistered(setupLog[k].pos) # << >>)
            => /\ ~setupLog[k].invoked
               /\ setupLog[k].status = "threw"
               /\ setupLog[k].name \notin inProgress
               /\ setupLog[k].name \notin completed
               /\ initPromise = "rejected"
               /\ initError = Err("unknownResource", setupLog[k].name,
                                  NotRegistered(setupLog[k].pos)[1])
               /\ k = Len(setupLog)
               /\ ~initialized
               /\ pc = "idle"

\* A setup system with a dependency nobody registered was reached after
\* another setup system of the game had run, with the built-in ones behind.
C23_Witness ==
    /\ Len(setupLog) = 2
    /\ setupLog[1].invoked /\ setupLog[1].status = "ok"
    /\ setupLog[2].name = "mixer"
    /\ NotRegistered(2) = << "audio" >>
    /\ Len(setupSystems) = 5
    /\ initError.kind = "unknownResource"

\* ------------------------------------------------------------------------
\* Properties of the dependencies handed to a runtime system
\* ------------------------------------------------------------------------

\* The runtime system of the game that injects "terrain".
Loader == "terrainLoader"

\* The instance under `name` when the turn of system k of the frame `log`
\* came, m being the registry when the frame began: what m held, or what a
\* system visited before k injected in this frame; Null when neither.
AtTurn(m, log, k, name) ==
    IF \E i \in 1..Len(m) : m[i].name = name /\ m[i].instance # Null
    THEN m[CHOOSE i \in 1..Len(m) : m[i].name = name].instance
    ELSE IF /\ name = "terrain"
            /\ \E j \in 1..(k - 1) : log[j].name = Loader /\ ~log[j].threw
    THEN "streamed"
    ELSE Null

\* C24: in every frame, a runtime system is called with the instances the
\* registry holds under its declared names when its own turn comes, whether
\* a setup system, a call from outside the frame or a system visited before
\* it in the same frame put them there; and it is passed over when one of
\* them is missing then, whatever an earlier frame handed to it.
C24_FreshDependencies ==
    [][frameLog' # frameLog =>
          /\ Len(frameLog') = Len(runtimeSystems)
          /\ \A k \in 1..Len(runtimeSystems) :
                LET names == runtimeSystems[k].dependencies
                    now == [d \in 1..Len(names) |->
                               AtTurn(resources, frameLog', k, names[d])]
                IN  IF \A d \in 1..Len(names) : now[d] # Null
                    THEN frameLog'[k].called /\ frameLog'[k].got = now
                    ELSE ~frameLog'[k].called /\ frameLog'[k].got = << >>]_vars

\* A frame in which the loader injected "terrain" and the system that
\* depends on it, visited after it in that frame, was called with that
\* instance.
C24_Witness ==
    \E j, k \in 1..Len(frameLog) :
        /\ j < k
        /\ frameLog[j].name = Loader /\ ~frameLog[j].threw
        /\ frameLog[k].name = "terrainLogic"
        /\ frameLog[k].called
        /\ frameLog[k].got = << "streamed" >>

\* ------------------------------------------------------------------------
\* Properties of the listener lists
\* ------------------------------------------------------------------------

\* The event names on() and off() are tried with: the names of the game
\* and one that never has listeners.
ProbeEvents == Events \cup { "ghost" }

\* The listener list of event name e in the Map m; empty when m has no e.
ListOf(m, e) == IF e \in DOMAIN m THEN m[e] ELSE << >>

\* The list without its entry at position p (from 1).
Dropped(list, p) ==
    [q \in 1..(Len(list) - 1) |-> IF q < p THEN list[q] ELSE list[q + 1]]

\* C25: on(e, cb) appends one entry cb to the list of e, whether or not cb
\* is in it already, so that on() called twice makes emit() invoke cb two
\* more times; off(e, cb) removes the earliest entry equal to cb and no
\* other, and changes nothing when the list holds no cb or e has no list;
\* neither touches the list of another event name.
C25_ListenerMultiset ==
    \A e \in ProbeEvents : \A cb \in Listeners :
        LET list == ListOf(eventListeners, e)
            on == On(eventListeners, e, cb)
            twice == On(on, e, cb)
            off == Off(eventListeners, e, cb)
            at == { p \in 1..Len(list) : list[p] = cb }
        IN  /\ DOMAIN on = DOMAIN eventListeners \cup { e }
            /\ on[e] = Append(list, cb)
            /\ twice[e] = Append(Append(list, cb), cb)
            /\ \A other \in DOMAIN eventListeners \ { e } :
                  /\ on[other] = eventListeners[other]
                  /\ off[other] = eventListeners[other]
            /\ Cardinality({ k \in 1..Len(Emit(twice, e).delivered) :
                                Emit(twice, e).delivered[k].cb = cb })
                  = Cardinality(at) + 2
            /\ DOMAIN off = DOMAIN eventListeners
            /\ IF at = {}
               THEN off = eventListeners
               ELSE off[e] =
                      Dropped(list, CHOOSE p \in at : \A q \in at : p <= q)

\* A callback was subscribed twice to an event with another listener in
\* between, one emit() invoked it twice, and an off() call for it has left
\* its later entry, behind the other listener.
C25_Witness ==
    /\ emitEvent = "hit"
    /\ \E i, j, k \in 1..Len(emitBefore) :
          /\ i < j /\ j < k
          /\ emitBefore[i] = emitBefore[k]
          /\ emitBefore[i] # emitBefore[j]
          /\ delivered[i].cb = delivered[k].cb
          /\ eventListeners["hit"] = << emitBefore[j], emitBefore[k] >>

\* ------------------------------------------------------------------------
\* Properties of the arguments of factories and setup systems
\* ------------------------------------------------------------------------

\* C26: every resource factory is called with the configuration object
\* init() was called with, and every setup system's init function with the
\* world, the instances the registry holds under its declared names, that
\* same configuration object, and the engine.
C26_ConfigForwarded ==
    /\ \A k \in 1..Len(factoryLog) :
          /\ factoryLog[k].args = << gameConfig >>
          /\ gameConfig \in Configs
    /\ \A k \in 1..Len(setupLog) :
          setupLog[k].invoked =>
              LET names == setupSystems[setupLog[k].pos].dependencies
              IN  /\ Len(setupLog[k].args) = 4
                  /\ setupLog[k].args[1] = "world"
                  /\ setupLog[k].args[2] =
                        [d \in 1..Len(names) |->
                            MapGet(resources, names[d]).instance]
                  /\ setupLog[k].args[3] = gameConfig
                  /\ setupLog[k].args[4] = "engine"

\* A second init() call, with the debug configuration, has invoked a
\* factory of the game and a setup system of the game that declares a
\* dependency.
C26_Witness ==
    /\ gameConfig = "debug"
    /\ initCalls = 2
    /\ \E k \in 1..Len(factoryLog) : factoryLog[k].factory \notin { "core" }
    /\ \E k \in 1..Len(setupLog) :
          /\ setupLog[k].invoked
          /\ setupLog[k].name = "spawn"
          /\ setupLog[k].args = << "world", << "made" >>, "debug", "engine" >>

\* ------------------------------------------------------------------------
\* Properties of an init() call made while another one is suspended
\* ------------------------------------------------------------------------

\* The init() calls that are suspended at an await of their own while
\* another init() call runs.
Suspended == { k \in 1..Len(stack) : stack[k].pc \in { "factories", "setups" } }

\* The factory and setup logs of all init() calls that have not settled.
AllFactoryLogs ==
    { factoryLog } \cup { stack[k].factoryLog : k \in 1..Len(stack) }

AllSetupLogs == { setupLog } \cup { stack[k].setupLog : k \in 1..Len(stack) }

\* C27: an init() call made while an earlier one is suspended at an await
\* changes nothing: while both are unsettled the built-in runtime and setup
\* systems are in their lists once, no factory has been invoked by both
\* calls and no setup system by both, and the later call starts no frame
\* loop.
C27_SecondInitRefused ==
    Suspended # {} =>
        /\ \A i, j \in 1..Len(runtimeSystems) :
              i # j => runtimeSystems[i].name # runtimeSystems[j].name
        /\ \A i, j \in 1..Len(setupSystems) :
              (i # j /\ BuiltInSetup(setupSystems[i]))
                  => setupSystems[i].name # setupSystems[j].name
        /\ \A log, other \in AllFactoryLogs :
              log # other =>
                  \A i \in 1..Len(log) : \A j \in 1..Len(other) :
                      log[i].name # other[j].name
        /\ \A log, other \in AllSetupLogs :
              log # other =>
                  \A i \in 1..Len(log) : \A j \in 1..Len(other) :
                      (log[i].invoked /\ other[j].invoked)
                          => log[i].pos # other[j].pos
        /\ ~rafPending

\* ------------------------------------------------------------------------
\* Properties of the runtime list after a second init()
\* ------------------------------------------------------------------------

\* The names of the runtime systems init() registers itself.
BuiltInSystemNames ==
    { CoreRuntimeSystems[k].name : k \in 1..Len(CoreRuntimeSystems) }
        \cup { DebugRenderer.name }

\* C28: no built-in runtime system is in the runtime list twice, and none
\* is called twice in one frame, also when the init() call that succeeded
\* came after one that rejected.
C28_BuiltInsOncePerFrame ==
    /\ \A i, j \in 1..Len(frameLog) :
          (/\ i # j
           /\ frameLog[i].name \in BuiltInSystemNames
           /\ frameLog[i].called /\ frameLog[j].called)
              => frameLog[i].name # frameLog[j].name
    /\ initialized =>
          \A i, j \in 1..Len(runtimeSystems) :
              (i # j /\ runtimeSystems[i].name \in BuiltInSystemNames)
                  => runtimeSystems[i].name # runtimeSystems[j].name

\* ------------------------------------------------------------------------
\* Properties of isInitialized()
\* ------------------------------------------------------------------------

\* isInitialized().
IsInitialized == initialized

\* C29: isInitialized() is true only when an init() call has resolved;
\* when the promise of init() has rejected, also for a render() call that
\* threw in the frame start() runs inside init(), the engine is not
\* initialized and the three registration functions do not throw.
C29_InitializedOnlyIfResolved ==
    /\ (IsInitialized /\ pc = "idle") => initPromise = "fulfilled"
    /\ initPromise = "rejected" =>
          /\ ~IsInitialized
          /\ ~RegisterResourceThrows
          /\ ~RegisterSetupThrows
          /\ ~RegisterSystemThrows

\* ------------------------------------------------------------------------
\* Properties of the registry over time
\* ------------------------------------------------------------------------

\* C30: a name other than eventBus that holds an instance holds that same
\* instance after every step of the engine: no registerResource,
\* addResource, init or update call takes it away or replaces it.
C30_AvailabilityMonotonic ==
    [][\A i \in 1..Len(resources) :
          (resources[i].name # "eventBus" /\ resources[i].instance # Null)
              => /\ \E j \in 1..Len(resources') :
                       resources'[j].name = resources[i].name
                 /\ \A j \in 1..Len(resources') :
                       resources'[j].name = resources[i].name
                           => resources'[j].instance = resources[i].instance]_vars

====
